---- MODULE Spec2Model ----
(***************************************************************************)
(* Model of the episode-window rankers of og-marl's verification scripts:  *)
(*   verification/find_best_episodes.py      (JSON ranker)                 *)
(*   verification/find_best_episodes_npz.py  (NPZ ranker)                  *)
(* and of the segment statistics of verification/create_progression_videos *)
(* One run of find_best_episodes is a behaviour: the window loop, the      *)
(* statistics, the ranking, and the export of the best and worst episode.  *)
(* Rewards are small integers; scores are exact rationals (num/den).       *)
(***************************************************************************)
EXTENDS Integers, Sequences, FiniteSets

\* ------------------------------------------------------------------ bounds
\* Longest trajectory (number of timesteps) explored.
MaxT == 5
\* Largest top_n explored.
MaxK == 2
\* Longest timeline handed to the action exporters.
MaxSteps == 3
\* Largest max_episodes handed to export_actions_to_txt.
MaxEpisodes == 2
\* Most JSON files a batch_record pattern matches.
MaxFiles == 3
\* Largest num_videos handed to create_progression_videos.
MaxVideos == 3
\* Longest trajectory handed to record_trajectory.
MaxReplay == 3
\* Longest trajectory handed to verify_trajectory.
MaxVerifyT == 12
\* Agent counts explored (length of each per-timestep reward row).
AgentCounts == {1, 2}
\* Per-agent reward values explored.
RewardValues == {0, 1}

\* ------------------------------------------------------- exact rationals
\* Scores are floats in the code; they are modelled exactly, as normalised
\* fractions with a positive denominator.
Abs(x) == IF x < 0 THEN -x ELSE x

RECURSIVE GCD(_, _)
GCD(a, b) == IF b = 0 THEN a ELSE GCD(b, a % b)

Rat(n, d) ==
    LET g == GCD(Abs(n), d)
    IN  [num |-> n \div g, den |-> d \div g]

RatAdd(x, y) == Rat(x.num * y.den + y.num * x.den, x.den * y.den)
RatLess(x, y) == x.num * y.den < y.num * x.den
RatLeq(x, y) == x.num * y.den <= y.num * x.den
RatTimes(x, k) == Rat(x.num * k, x.den)
Zero == Rat(0, 1)

\* ------------------------------------------------------- python helpers
\* sum of a sequence of integers
RECURSIVE SumSeq(_)
SumSeq(s) == IF s = <<>> THEN 0 ELSE Head(s) + SumSeq(Tail(s))

\* PyRange with the slip of walking upwards whatever the sign of the step
RECURSIVE PyRangeAbsStep(_, _, _)
PyRangeAbsStep(lo, stop, step) ==
    IF lo < stop
    THEN <<lo>> \o PyRangeAbsStep(lo + Abs(step), stop, step)
    ELSE <<>>

\* range(lo, stop, step) for step # 0, as the list of its elements
RECURSIVE PyRange(_, _, _)
PyRange(lo, stop, step) ==
    IF (step > 0 /\ lo < stop) \/ (step < 0 /\ lo > stop)
    THEN <<lo>> \o PyRange(lo + step, stop, step)
    ELSE <<>>

\* a slice bound, as python normalises it for a sequence of length n
PyBound(i, n) ==
    LET j == IF i < 0 THEN i + n ELSE i
    IN  IF j < 0 THEN 0 ELSE IF j > n THEN n ELSE j

\* s[lo:] and s[:hi] (0-based bounds, negative ones counted from the end)
PySliceFrom(s, lo) == SubSeq(s, PyBound(lo, Len(s)) + 1, Len(s))
PySliceTo(s, hi) == SubSeq(s, 1, PyBound(hi, Len(s)))
\* s[lo:hi]
PySlice(s, lo, hi) == SubSeq(s, PyBound(lo, Len(s)) + 1, PyBound(hi, Len(s)))
\* s[::-1]
Reversed(s) == [i \in 1..Len(s) |-> s[Len(s) + 1 - i]]

Min(a, b) == IF a < b THEN a ELSE b

VARIABLES
    script,           \* "json" or "npz": which ranker runs
    rewards,          \* the loaded reward rows, one per timestep (0-based t is rewards[t+1])
    n_agents,         \* agents per row
    episode_length,   \* parameter: window length
    top_n,            \* parameter: number of best / worst windows
    pc,               \* position in find_best_episodes
    err,              \* the exception raised ("" when none)
    pending,          \* the start indices the for loop has still to visit
    episode_rewards,  \* scores of the windows generated so far
    episode_starts,   \* start indices of the windows generated so far
    best_indices,     \* 0-based indices into episode_starts, best first
    worst_indices,    \* 0-based indices into episode_starts, worst first
    printed,          \* the ranking lines printed so far
    best_file,        \* the _BEST.json written, or NoFile
    worst_file,       \* the _WORST.json written, or NoFile
    heap,             \* the metadata dicts in memory; heap[LoadedRef] is the loaded one
    argsort_memo,     \* what this build's np.argsort returned, per argument seen
    run,              \* 1 in the first call of find_best_episodes, 2 in a repeated one
    first_result      \* what the first call returned and printed, once it has ended

\* the ranker's own state
rankerVars == <<script, rewards, n_agents, episode_length, top_n, pc, err, pending,
                episode_rewards, episode_starts, best_indices, worst_indices,
                printed, best_file, worst_file, heap, argsort_memo, run,
                first_result>>

VARIABLES
    v_pc,               \* position in verify_trajectory ("idle" when it does not run)
    v_metadata,         \* data['metadata'] of the file being verified
    v_trajectories,     \* data['trajectories']: per timestep the shapes of obs and act
    v_i,                \* loop index of the shape check
    shapes_consistent,  \* the flag of the shape check
    v_printed,          \* the messages printed so far
    checks_passed       \* the checks counted as passed (of those modelled)

verifierVars == <<v_pc, v_metadata, v_trajectories, v_i, shapes_consistent,
                  v_printed, checks_passed>>

VARIABLES
    c_pc,                  \* position in a vault converter ("idle" when none runs)
    converter,             \* which converter runs
    vault_exists,          \* whether the vault directory exists
    listing,               \* vault_dir.iterdir(): the entries, in the order the OS lists them
    quality,               \* the quality argument (NoQuality for None)
    all_qualities,         \* the all_qualities argument
    available_qualities,   \* the discovered qualities
    qualities_to_convert,  \* the qualities still to convert
    attempted,             \* the qualities whose conversion was started, in order
    outputs,               \* the qualities for which an output file was written
    c_printed,             \* the messages printed so far
    c_err                  \* the uncaught exception ("" when none)

converterVars == <<c_pc, converter, vault_exists, listing, quality, all_qualities,
                   available_qualities, qualities_to_convert, attempted, outputs,
                   c_printed, c_err>>

VARIABLES
    x_pc,             \* position in an action exporter script ("idle" when none runs)
    x_script,         \* "export_vault_actions" or "export_actions_simple"
    x_format,         \* --format: "csv", "json", "txt" or "all"
    actions,          \* vault_data['actions'], one joint action per timestep
    has_terminals,    \* 'terminals' in vault_data
    terminals,        \* vault_data['terminals'], per timestep one flag per agent
    has_rewards,      \* 'rewards' in vault_data
    x_rewards,        \* vault_data['rewards'], per timestep one reward per agent
    max_episodes,     \* the max_episodes argument of export_actions_to_txt
    x_t,              \* the loop variable t of the running exporter
    episodes,         \* export_actions_to_json: the episodes closed so far
    episode_actions,  \* export_actions_to_json: the actions of the open episode
    json_file,        \* the JSON file
    episode_num,      \* export_actions_to_csv / _txt: the episode counter
    csv_file,         \* the CSV file: header and rows written so far
    episode_start,    \* export_actions_to_txt: first timestep of the open episode
    episode_return,   \* export_actions_to_txt: per-agent return of the open episode
    episodes_written, \* export_actions_to_txt: episodes closed so far
    txt_file,         \* the text file: the blocks written so far
    x_err             \* the uncaught exception ("" when none)

exporterVars == <<x_pc, x_script, x_format, actions, has_terminals, terminals,
                  has_rewards, x_rewards, max_episodes, x_t, episodes,
                  episode_actions, json_file, episode_num, csv_file,
                  episode_start, episode_return, episodes_written, txt_file,
                  x_err>>

VARIABLES
    b_pc,           \* position in batch_record ("idle" when it does not run)
    matching,       \* the JSON files the pattern matches, as the glob yields them
    json_files,     \* sorted(parent_dir.glob(pattern))
    videos,         \* the JSON files whose .mp4 exists
    b_i,            \* how many files the loop has handled in this call
    b_log,          \* what this call did with each file, in order
    b_run,          \* 1 in the first call of batch_record, 2 in a repeated one
    first_success   \* in a repeated call: whether the first call succeeded on every file

batchVars == <<b_pc, matching, json_files, videos, b_i, b_log, b_run, first_success>>

VARIABLES
    d_pc,                \* position in convert_vault_to_json ("idle" when it does not run)
    flashbax_available,  \* FLASHBAX_AVAILABLE
    cwd,                 \* the working directory of the process
    entry_cwd,           \* the working directory when the function was entered
    vault_parent,        \* vault_path.parent
    original_dir,        \* original_dir = Path.cwd() of method 3
    d_events,            \* what the loading fallbacks did
    d_result             \* how the function ended ("" while it runs)

directoryVars == <<d_pc, flashbax_available, cwd, entry_cwd, vault_parent,
                   original_dir, d_events, d_result>>

VARIABLES
    p_pc,            \* position in create_progression_videos ("idle" when it does not run)
    num_videos,      \* the num_videos argument
    p_length,        \* the episode_length argument
    p_timesteps,     \* n_timesteps of the loaded NPZ file
    sample_starts,   \* the start indices of the segments
    segments,        \* the segment files written so far
    p_err            \* the uncaught exception ("" when none)

progressionVars == <<p_pc, num_videos, p_length, p_timesteps, sample_starts,
                     segments, p_err>>

VARIABLES
    r_pc,            \* position in record_trajectory ("idle" when it does not run)
    num_steps,       \* the num_steps argument
    r_trajectories,  \* data['trajectories']: the stored actions, in order
    r_i,             \* the loop variable i
    replayed,        \* the actions handed to env.step, in order
    frames,          \* frames: each frame named by the stored action it shows
    resets,          \* the steps after which env.reset() was called
    env_open,        \* the environment exists and is not closed
    interrupted,     \* a KeyboardInterrupt was caught
    saved,           \* the video file
    r_err            \* the uncaught exception ("" when none)

recorderVars == <<r_pc, num_steps, r_trajectories, r_i, replayed, frames,
                  resets, env_open, interrupted, saved, r_err>>

\* the state of the scripts modelled after the converters
toolVars == <<exporterVars, batchVars, directoryVars, progressionVars,
              recorderVars>>

vars == <<rankerVars, verifierVars, converterVars, toolVars>>

nonRankerVars == <<verifierVars, converterVars, toolVars>>
nonVerifierVars == <<rankerVars, converterVars, toolVars>>
nonConverterVars == <<rankerVars, verifierVars, toolVars>>
nonExporterVars == <<rankerVars, verifierVars, converterVars, batchVars,
                     directoryVars, progressionVars, recorderVars>>
nonBatchVars == <<rankerVars, verifierVars, converterVars, exporterVars,
                  directoryVars, progressionVars, recorderVars>>
nonDirectoryVars == <<rankerVars, verifierVars, converterVars, exporterVars,
                      batchVars, progressionVars, recorderVars>>
nonProgressionVars == <<rankerVars, verifierVars, converterVars, exporterVars,
                        batchVars, directoryVars, recorderVars>>
nonRecorderVars == <<rankerVars, verifierVars, converterVars, exporterVars,
                     batchVars, directoryVars, progressionVars>>

NoFile == [written |-> FALSE]

\* len(trajectories) / int(data['n_timesteps'])
n_timesteps == Len(rewards)

\* ------------------------------------------------------- window scores
\* np.mean(trajectories[t]['rew']) for 0-based t
MeanReward(t) == Rat(SumSeq(rewards[t + 1]), Len(rewards[t + 1]))

\* sum(np.mean(trajectories[t]['rew']) for t in range(lo, hi))
RECURSIVE SumOfMeans(_, _)
SumOfMeans(lo, hi) ==
    IF lo >= hi THEN Zero ELSE RatAdd(MeanReward(lo), SumOfMeans(lo + 1, hi))

\* the JSON ranker's episode_reward of the window starting at start
JsonEpisodeReward(start) ==
    SumOfMeans(start, Min(start + episode_length, n_timesteps))

\* np.sum of a 2-d slice of reward rows: every agent of every row
RECURSIVE NpSum(_)
NpSum(rows) ==
    IF rows = <<>> THEN 0 ELSE SumSeq(Head(rows)) + NpSum(Tail(rows))

\* the NPZ ranker's episode_reward: np.sum(rewards[start:start + episode_length])
NpzEpisodeReward(start) ==
    Rat(NpSum(PySlice(rewards, start, start + episode_length)), 1)

\* create_progression_videos: segment_reward = np.sum(rewards[start:end])
SegmentReward(start, end) == Rat(NpSum(PySlice(rewards, start, end)), 1)

EpisodeReward(start) ==
    IF script = "json" THEN JsonEpisodeReward(start) ELSE NpzEpisodeReward(start)

\* the stride of the window loop: episode_length // 2
StepSize == episode_length \div 2


\* AvgReward with the slip of dividing by the agent count instead of the
\* window length
AvgRewardPerAgent(reward) == Rat(reward.num, reward.den * n_agents)

\* reward / episode_length
AvgReward(reward) ==
    IF episode_length > 0
    THEN Rat(reward.num, reward.den * episode_length)
    ELSE Rat(-reward.num, reward.den * (-episode_length))

\* ------------------------------------------------------------- ranking
\* np.argsort(episode_rewards): a permutation of the 0-based window indices
\* that lists the scores in ascending order.  The default kind ('quicksort')
\* is not stable, so the order among equal scores is whatever the numpy build
\* produces: every ascending permutation is a possible result.
ArgsortResults(scores) ==
    LET n == Len(scores)
    IN  { p \in [1..n -> 0..(n - 1)] :
            /\ \A i, j \in 1..n : i # j => p[i] # p[j]
            /\ \A i \in 1..(n - 1) : RatLeq(scores[p[i] + 1], scores[p[i + 1] + 1]) }

\* Argsort with a sort whose tie order changes from call to call
ArgsortAnyTime(scores) == ArgsortResults(scores)

\* np.argsort is a function: called again with an argument it has seen, the
\* build returns what it returned before
Argsort(scores) ==
    LET known == { m \in argsort_memo : m[1] = scores }
    IN  IF known # {} THEN { m[2] : m \in known } ELSE ArgsortResults(scores)

Remember(memo, scores, order) == memo \cup { <<scores, order>> }

\* BestIndices with the slip of slicing the ascending order from its front
BestIndicesFromFront(order) == Reversed(PySliceTo(order, top_n))

\* np.argsort(episode_rewards)[-top_n:][::-1]
BestIndices(order) == Reversed(PySliceFrom(order, -top_n))

\* WorstIndices with the windows of the top list left out
RECURSIVE Without(_, _)
Without(seq, drop) ==
    IF seq = <<>> THEN <<>>
    ELSE IF Head(seq) \in drop THEN Without(Tail(seq), drop)
    ELSE <<Head(seq)>> \o Without(Tail(seq), drop)

WorstIndicesDeduplicated(order) ==
    Without(PySliceTo(order, top_n),
            { BestIndices(order)[i] : i \in 1..Len(BestIndices(order)) })

\* json: np.argsort(episode_rewards)[:min(top_n, len(episode_rewards))]
\* npz:  np.argsort(episode_rewards)[:top_n]
WorstIndices(order) ==
    IF script = "json"
    THEN PySliceTo(order, Min(top_n, Len(episode_rewards)))
    ELSE PySliceTo(order, top_n)

\* the end index printed for a ranked window: start_step + episode_length
PrintedEnd(start_step) == start_step + episode_length

\* one printed line of a ranking: "#rank: Steps start-end | Total | Avg"
RankLine(kind, rank, idx) ==
    [ kind          |-> kind,
      rank          |-> rank,
      start_index   |-> episode_starts[idx + 1],
      end_index     |-> PrintedEnd(episode_starts[idx + 1]),
      total_score   |-> episode_rewards[idx + 1],
      average_score |-> AvgReward(episode_rewards[idx + 1]) ]

RankLines(kind, indices) ==
    [ r \in 1..Len(indices) |-> RankLine(kind, r, indices[r]) ]

\* ------------------------------------------------------------- export
\* the end of the exported slice
\* json: min(start + episode_length, len(trajectories));  npz: start + episode_length
ExportEnd(start) ==
    IF script = "json"
    THEN Min(start + episode_length, n_timesteps)
    ELSE start + episode_length

\* the metadata n_timesteps of an exported file
\* json: metadata.copy() keeps the loaded file's value;  npz: episode_length
ExportedNTimesteps ==
    IF script = "json" THEN n_timesteps ELSE episode_length

\* ---- the metadata dicts.  A dict is a function from its keys to their
\* values; heap is the list of the dicts in memory, a reference is an index.
\* metadata = data['metadata']
LoadedRef == 1

\* the metadata of the loaded file
LoadedMetadata == [ n_timesteps |-> Len(rewards), n_agents |-> n_agents ]

\* d[k] = v
DictSet(d, k, v) == [ x \in (DOMAIN d) \cup {k} |-> IF x = k THEN v ELSE d[x] ]

\* the slip of exporting the loaded metadata dict itself, not a copy of it
MetadataAliasRef == LoadedRef

\* metadata.copy(): a new dict
MetadataCopyRef == Len(heap) + 1

\* the dict that becomes the exported file's metadata
\* json: metadata.copy();  npz: a dict literal
ExportRef == IF script = "json" THEN MetadataCopyRef ELSE Len(heap) + 1

\* the contents the exported dict starts with
ExportBase ==
    IF script = "json"
    THEN heap[LoadedRef]
    ELSE [ n_agents |-> n_agents, n_timesteps |-> episode_length ]

\* the heap after the export of window idx: the exported dict is created and
\* its note, original_start_step and cumulative_reward are set
HeapAfterExport(idx) ==
    LET s  == episode_starts[idx + 1]
        e  == ExportEnd(s)
        h1 == IF ExportRef > Len(heap) THEN Append(heap, ExportBase) ELSE heap
        d1 == DictSet(h1[ExportRef], "note", <<s, e>>)
        d2 == DictSet(d1, "original_start_step", s)
        d3 == DictSet(d2, "cumulative_reward", episode_rewards[idx + 1])
    IN  [ h1 EXCEPT ![ExportRef] = d3 ]

\* the exported file for the window with 0-based index idx
EpisodeFile(idx) ==
    LET s == episode_starts[idx + 1]
        e == ExportEnd(s)
    IN  [ written             |-> TRUE,
          metadata            |-> HeapAfterExport(idx)[ExportRef],
          n_timesteps         |-> ExportedNTimesteps,
          trajectories        |-> PySlice(rewards, s, e),
          original_start_step |-> s,
          end_step            |-> e,
          cumulative_reward   |-> episode_rewards[idx + 1] ]

\* ------------------------------------------------------------- actions
NoResult == [ended |-> FALSE]

\* verify_trajectory does not run
VerifierIdle ==
    /\ v_pc = "idle"
    /\ v_metadata = <<>>
    /\ v_trajectories = <<>>
    /\ v_i = 0
    /\ shapes_consistent = TRUE
    /\ v_printed = {}
    /\ checks_passed = {}

\* no vault converter runs
ConverterIdle ==
    /\ c_pc = "idle"
    /\ converter = ""
    /\ vault_exists = FALSE
    /\ listing = <<>>
    /\ quality = ""
    /\ all_qualities = FALSE
    /\ available_qualities = <<>>
    /\ qualities_to_convert = <<>>
    /\ attempted = <<>>
    /\ outputs = {}
    /\ c_printed = {}
    /\ c_err = ""

\* a file that has not been opened
NotOpened == [opened |-> FALSE]

\* no action exporter runs
ExporterIdle ==
    /\ x_pc = "idle"
    /\ x_script = ""
    /\ x_format = ""
    /\ actions = <<>>
    /\ has_terminals = FALSE
    /\ terminals = <<>>
    /\ has_rewards = FALSE
    /\ x_rewards = <<>>
    /\ max_episodes = 0
    /\ x_t = 0
    /\ episodes = <<>>
    /\ episode_actions = <<>>
    /\ json_file = NoFile
    /\ episode_num = 0
    /\ csv_file = NotOpened
    /\ episode_start = 0
    /\ episode_return = <<>>
    /\ episodes_written = 0
    /\ txt_file = NotOpened
    /\ x_err = ""

\* batch_record does not run
BatchIdle ==
    /\ b_pc = "idle"
    /\ matching = {}
    /\ json_files = <<>>
    /\ videos = {}
    /\ b_i = 0
    /\ b_log = <<>>
    /\ b_run = 1
    /\ first_success = FALSE

\* convert_vault_to_json (convert_vault_to_json.py) does not run
DirectoryIdle ==
    /\ d_pc = "idle"
    /\ flashbax_available = FALSE
    /\ cwd = ""
    /\ entry_cwd = ""
    /\ vault_parent = ""
    /\ original_dir = ""
    /\ d_events = {}
    /\ d_result = ""

\* create_progression_videos does not run
ProgressionIdle ==
    /\ p_pc = "idle"
    /\ num_videos = 0
    /\ p_length = 0
    /\ p_timesteps = 0
    /\ sample_starts = <<>>
    /\ segments = <<>>
    /\ p_err = ""

\* record_trajectory does not run
RecorderIdle ==
    /\ r_pc = "idle"
    /\ num_steps = 0
    /\ r_trajectories = <<>>
    /\ r_i = 0
    /\ replayed = <<>>
    /\ frames = <<>>
    /\ resets = <<>>
    /\ env_open = FALSE
    /\ interrupted = FALSE
    /\ saved = NoFile
    /\ r_err = ""

\* none of the scripts modelled after the converters runs
ToolsIdle ==
    ExporterIdle /\ BatchIdle /\ DirectoryIdle /\ ProgressionIdle /\ RecorderIdle

\* a call of find_best_episodes with T in Ts, episode_length in Ls, top_n in Ks
RankerInit(Ts, Ls, Ks) ==
    /\ script \in {"json", "npz"}
    /\ n_agents \in AgentCounts
    /\ \E T \in Ts : rewards \in [1..T -> [1..n_agents -> RewardValues]]
    /\ episode_length \in Ls
    /\ top_n \in Ks
    /\ heap = <<LoadedMetadata>>
    /\ argsort_memo = {}
    /\ run = 1
    /\ first_result = NoResult
    /\ pc = "start"
    /\ err = ""
    /\ pending = <<>>
    /\ episode_rewards = <<>>
    /\ episode_starts = <<>>
    /\ best_indices = <<>>
    /\ worst_indices = <<>>
    /\ printed = <<>>
    /\ best_file = NoFile
    /\ worst_file = NoFile

Init ==
    /\ RankerInit(1..MaxT, 1..(MaxT + 1), 0..MaxK)
    /\ VerifierIdle
    /\ ConverterIdle
    /\ ToolsIdle

\* for start in range(0, T - episode_length, episode_length // 2):
\* range() raises ValueError when its step is 0
EnterLoop ==
    /\ pc = "start"
    /\ IF StepSize = 0
       THEN /\ pc' = "error"
            /\ err' = "ValueError"
            /\ UNCHANGED pending
       ELSE /\ pc' = "loop"
            /\ pending' = PyRange(0, n_timesteps - episode_length, StepSize)
            /\ UNCHANGED err
    /\ UNCHANGED <<script, rewards, n_agents, episode_length, top_n,
                   episode_rewards, episode_starts, best_indices, worst_indices,
                   printed, best_file, worst_file>>
    /\ UNCHANGED <<heap, argsort_memo, run, first_result, nonRankerVars>>

\* one iteration of the window loop
LoopBody ==
    /\ pc = "loop"
    /\ pending # <<>>
    /\ LET start == Head(pending)
       IN  /\ episode_rewards' = Append(episode_rewards, EpisodeReward(start))
           /\ episode_starts' = Append(episode_starts, start)
    /\ pending' = Tail(pending)
    /\ UNCHANGED <<script, rewards, n_agents, episode_length, top_n, pc, err,
                   best_indices, worst_indices, printed, best_file, worst_file>>
    /\ UNCHANGED <<heap, argsort_memo, run, first_result, nonRankerVars>>

\* the reward statistics after the loop: np.mean and np.std of an empty array
\* give nan, np.min of an empty array raises ValueError
Statistics ==
    /\ pc = "loop"
    /\ pending = <<>>
    /\ IF episode_rewards = <<>>
       THEN pc' = "error" /\ err' = "ValueError"
       ELSE pc' = "rank" /\ UNCHANGED err
    /\ UNCHANGED <<script, rewards, n_agents, episode_length, top_n, pending,
                   episode_rewards, episode_starts, best_indices, worst_indices,
                   printed, best_file, worst_file>>
    /\ UNCHANGED <<heap, argsort_memo, run, first_result, nonRankerVars>>

\* best_indices, the printed top list, worst_indices, the printed worst list
Rank ==
    /\ pc = "rank"
    /\ \E order \in Argsort(episode_rewards) :
         /\ best_indices' = BestIndices(order)
         /\ worst_indices' = WorstIndices(order)
         /\ printed' = RankLines("best", BestIndices(order))
                         \o RankLines("worst", WorstIndices(order))
         /\ argsort_memo' = Remember(argsort_memo, episode_rewards, order)
    /\ pc' = "export_best"
    /\ UNCHANGED <<script, rewards, n_agents, episode_length, top_n, err, pending,
                   episode_rewards, episode_starts, best_file, worst_file>>
    /\ UNCHANGED <<heap, run, first_result, nonRankerVars>>

\* best_indices[0] raises IndexError on an empty ranking
ExportBest ==
    /\ pc = "export_best"
    /\ IF best_indices = <<>>
       THEN pc' = "error" /\ err' = "IndexError" /\ UNCHANGED <<best_file, heap>>
       ELSE /\ best_file' = EpisodeFile(best_indices[1])
            /\ heap' = HeapAfterExport(best_indices[1])
            /\ pc' = "export_worst"
            /\ UNCHANGED err
    /\ UNCHANGED <<script, rewards, n_agents, episode_length, top_n, pending,
                   episode_rewards, episode_starts, best_indices, worst_indices,
                   printed, worst_file>>
    /\ UNCHANGED <<argsort_memo, run, first_result, nonRankerVars>>

\* worst_indices[0] raises IndexError on an empty ranking
ExportWorst ==
    /\ pc = "export_worst"
    /\ IF worst_indices = <<>>
       THEN pc' = "error" /\ err' = "IndexError" /\ UNCHANGED <<worst_file, heap>>
       ELSE /\ worst_file' = EpisodeFile(worst_indices[1])
            /\ heap' = HeapAfterExport(worst_indices[1])
            /\ pc' = "done"
            /\ UNCHANGED err
    /\ UNCHANGED <<script, rewards, n_agents, episode_length, top_n, pending,
                   episode_rewards, episode_starts, best_indices, worst_indices,
                   printed, best_file>>
    /\ UNCHANGED <<argsort_memo, run, first_result, nonRankerVars>>

Next ==
    \/ EnterLoop
    \/ LoopBody
    \/ Statistics
    \/ Rank
    \/ ExportBest
    \/ ExportWorst

Spec == Init /\ [][Next]_vars

\* ---------------------------------------------- any argument values
\* find_best_episodes called with any integers, also non-positive
\* episode_length and negative top_n (int(sys.argv[2]), int(sys.argv[3]))
InitAnyArgs ==
    /\ RankerInit(1..(MaxT - 1), (-MaxK)..MaxT, (-MaxK)..MaxK)
    /\ VerifierIdle
    /\ ConverterIdle
    /\ ToolsIdle

SpecAnyArgs == InitAnyArgs /\ [][Next]_vars

\* ---------------------------------------------- the same call, twice
\* what a call of find_best_episodes returned, printed and wrote
Result ==
    [ ended           |-> TRUE,
      pc              |-> pc,
      err             |-> err,
      best_indices    |-> best_indices,
      worst_indices   |-> worst_indices,
      episode_starts  |-> episode_starts,
      episode_rewards |-> episode_rewards,
      printed         |-> printed,
      best_file       |-> best_file,
      worst_file      |-> worst_file ]

\* find_best_episodes is called again with the same arguments: the file is
\* loaded again, the locals start afresh, the files of the first call stay
RunAgain ==
    /\ run = 1
    /\ pc \in {"done", "error"}
    /\ first_result' = Result
    /\ run' = 2
    /\ pc' = "start"
    /\ err' = ""
    /\ pending' = <<>>
    /\ episode_rewards' = <<>>
    /\ episode_starts' = <<>>
    /\ best_indices' = <<>>
    /\ worst_indices' = <<>>
    /\ printed' = <<>>
    /\ heap' = <<LoadedMetadata>>
    /\ UNCHANGED <<script, rewards, n_agents, episode_length, top_n, best_file,
                   worst_file, argsort_memo, nonRankerVars>>

InitTwice ==
    /\ RankerInit(1..(MaxT - 1), 1..MaxT, 0..MaxK)
    /\ VerifierIdle
    /\ ConverterIdle
    /\ ToolsIdle

NextTwice ==
    \/ Next
    \/ RunAgain

SpecTwice == InitTwice /\ [][NextTwice]_vars

\* ------------------------------------------------- verify_trajectory
\* the 'Trajectory count matches metadata' check on a JSON file
TrajectoryCountMatches(file) ==
    Len(file.trajectories) = file.metadata["n_timesteps"]


\* ===================================================================
\* Properties
\* ===================================================================
\* the window loop has run to its end
WindowsGenerated ==
    \/ pc = "loop" /\ pending = <<>>
    \/ pc \in {"rank", "export_best", "export_worst", "done"}
    \/ pc = "error" /\ StepSize # 0

\* the rankings have been computed and printed
Ranked ==
    \/ pc \in {"export_best", "export_worst", "done"}
    \/ pc = "error" /\ err = "IndexError"

NumWindows == Len(episode_rewards)
ScoreOf(idx) == episode_rewards[idx + 1]
StartOf(idx) == episode_starts[idx + 1]

\* the start indices 0, S, 2S, ... with k*S + L <= T
StartsUpTo(T, L, S) == [k \in 1..(((T - L) \div S) + 1) |-> (k - 1) * S]

\* sum over t in [s, s+L) of the mean over agents of the rewards at t
SumOfAgentMeans(s) ==
    Rat(NpSum(SubSeq(rewards, s + 1, s + episode_length)), n_agents)

\* C1: for 1 <= L <= T and stride S >= 1 the generated window starts are
\* exactly 0, S, 2S, ... for every k*S with k*S + L <= T, so their number is
\* floor((T - L) / S) + 1.
C1_WindowStarts ==
    (WindowsGenerated /\ 1 <= episode_length /\ episode_length <= n_timesteps
        /\ StepSize >= 1)
    => /\ episode_starts = StartsUpTo(n_timesteps, episode_length, StepSize)
       /\ NumWindows = ((n_timesteps - episode_length) \div StepSize) + 1

\* C2: when L = T exactly one window is generated, [0, T), and it is both the
\* best and the worst episode.
C2_WholeSequenceWindow ==
    (WindowsGenerated /\ episode_length = n_timesteps)
    => /\ episode_starts = <<0>>
       /\ pc # "error"
       /\ (pc = "done" =>
             /\ best_file.original_start_step = 0
             /\ best_file.end_step = n_timesteps
             /\ worst_file.original_start_step = 0
             /\ worst_file.end_step = n_timesteps)

\* C3: when L > T the window list is empty and the run raises no error.
C3_TooLongWindowNoError ==
    (episode_length > n_timesteps)
    => /\ episode_starts = <<>>
       /\ pc # "error"

\* C4: the score of every generated window starting at s is the sum over
\* t in [s, s+L) of the mean of the per-agent rewards at t.
C4_ScoreIsSumOfMeans ==
    \A i \in 1..NumWindows :
        episode_rewards[i] = SumOfAgentMeans(episode_starts[i])

\* C5: the JSON ranker, the NPZ ranker and the segment statistics of
\* create_progression_videos give the same score to the same window.
C5_ScoringConsistent ==
    \A i \in 1..NumWindows :
        LET s == episode_starts[i]
        IN  /\ JsonEpisodeReward(s) = NpzEpisodeReward(s)
            /\ NpzEpisodeReward(s) = SegmentReward(s, s + episode_length)

\* C6: with top_n = 1 and at least one window, the first best window scores
\* >= every generated window and the first worst window scores <= every one.
C6_TopAndBottomAreExtremes ==
    (Ranked /\ top_n = 1)
    => /\ best_indices # <<>>
       /\ worst_indices # <<>>
       /\ \A i \in 1..NumWindows :
            /\ RatLeq(episode_rewards[i], ScoreOf(best_indices[1]))
            /\ RatLeq(ScoreOf(worst_indices[1]), episode_rewards[i])
       /\ printed[1].kind = "best"
       /\ printed[1].total_score = ScoreOf(best_indices[1])

C6_Witness ==
    /\ Ranked
    /\ top_n = 1
    /\ NumWindows >= 3
    /\ RatLess(ScoreOf(worst_indices[1]), ScoreOf(best_indices[1]))

\* C7: the top list is in descending score order and, among equal scores,
\* the earliest start comes first; the best episode is the earliest window
\* with the maximum score.
C7_TopTiesEarliestFirst ==
    (Ranked /\ top_n >= 1)
    => /\ \A i, j \in 1..Len(best_indices) :
            i < j =>
              \/ RatLess(ScoreOf(best_indices[j]), ScoreOf(best_indices[i]))
              \/ /\ ScoreOf(best_indices[j]) = ScoreOf(best_indices[i])
                 /\ StartOf(best_indices[i]) < StartOf(best_indices[j])
       /\ \A k \in 0..(NumWindows - 1) :
            ScoreOf(k) = ScoreOf(best_indices[1])
              => StartOf(best_indices[1]) <= StartOf(k)

\* C8: the bottom list is in ascending score order and, among equal scores,
\* the earliest start comes first; the worst episode is the earliest window
\* with the minimum score.
C8_BottomTiesEarliestFirst ==
    (Ranked /\ top_n >= 1)
    => /\ \A i, j \in 1..Len(worst_indices) :
            i < j =>
              \/ RatLess(ScoreOf(worst_indices[i]), ScoreOf(worst_indices[j]))
              \/ /\ ScoreOf(worst_indices[j]) = ScoreOf(worst_indices[i])
                 /\ StartOf(worst_indices[i]) < StartOf(worst_indices[j])
       /\ \A k \in 0..(NumWindows - 1) :
            ScoreOf(k) = ScoreOf(worst_indices[1])
              => StartOf(worst_indices[1]) <= StartOf(k)

\* C9: for top_n >= 0 and N windows the top list and the bottom list each
\* hold exactly min(top_n, N) windows; a request for 0 gives empty lists.
C9_RankingSizes ==
    (Ranked /\ top_n >= 0)
    => /\ Len(best_indices) = Min(top_n, NumWindows)
       /\ Len(worst_indices) = Min(top_n, NumWindows)

\* a written best / worst file describes a window of the trajectory
FileWindowOk(f) ==
    f.written =>
      /\ 0 <= f.original_start_step
      /\ f.original_start_step < f.end_step
      /\ f.end_step = f.original_start_step + episode_length
      /\ f.end_step <= n_timesteps

\* C10: every printed or exported window has 0 <= start < end,
\* end = start + L, end <= T, and average score = total score / L.
C10_ReportedWindowsWellFormed ==
    /\ \A r \in 1..Len(printed) :
         /\ 0 <= printed[r].start_index
         /\ printed[r].start_index < printed[r].end_index
         /\ printed[r].end_index = printed[r].start_index + episode_length
         /\ printed[r].end_index <= n_timesteps
         /\ RatTimes(printed[r].average_score, episode_length)
              = printed[r].total_score
    /\ FileWindowOk(best_file)
    /\ FileWindowOk(worst_file)

C10_Witness ==
    /\ pc = "done"
    /\ Len(printed) >= 4
    /\ best_file.written
    /\ worst_file.written
    /\ episode_length >= 3
    /\ printed[1].total_score # Zero


\* no ranker is running: one fixed loaded file, never stepped
RankerIdle ==
    /\ RankerInit({1}, {2}, {0})
    /\ script = "json"
    /\ n_agents = 1
    /\ rewards = << <<0>> >>

\* the number of leading timesteps whose shapes verify_trajectory looks at:
\* range(min(10, len(trajectories)))
ShapeCheckSteps == 10

\* np.array(step_data['obs']).shape and np.array(step_data['act']).shape as
\* the metadata declares them
DeclaredObsShape == <<v_metadata.n_agents, v_metadata.obs_dim>>
DeclaredActShape == <<v_metadata.n_agents, v_metadata.act_dim>>

\* a file to verify: T timesteps, at most one of them with a deviating
\* observation shape and at most one with a deviating action shape; the
\* declared n_timesteps is T or, wrongly, T + 1
InitVerify ==
    /\ v_pc = "shapes"
    /\ \E T \in 1..MaxVerifyT, a \in AgentCounts, declared \in 0..1 :
         /\ v_metadata = [ n_agents |-> a, obs_dim |-> 3, act_dim |-> 2,
                           n_timesteps |-> T + declared ]
         /\ \E bad_obs, bad_act \in { b \in SUBSET (1..T) : Cardinality(b) <= 1 } :
              v_trajectories =
                [ t \in 1..T |->
                    [ obs |-> IF t \in bad_obs THEN <<a, 4>> ELSE <<a, 3>>,
                      act |-> IF t \in bad_act THEN <<a + 1, 2>> ELSE <<a, 2>> ] ]
    /\ v_i = 0
    /\ shapes_consistent = TRUE
    /\ v_printed = <<>>
    /\ checks_passed = {}
    /\ RankerIdle
    /\ ConverterIdle
    /\ ToolsIdle

\* one iteration of: for i in range(min(10, len(trajectories)))
ShapeCheckStep ==
    /\ v_pc = "shapes"
    /\ v_i < Min(ShapeCheckSteps, Len(v_trajectories))
    /\ LET step_data == v_trajectories[v_i + 1]
           obs_bad == step_data.obs # DeclaredObsShape
           act_bad == step_data.act # DeclaredActShape
       IN  /\ shapes_consistent' =
                 IF obs_bad \/ act_bad THEN FALSE ELSE shapes_consistent
           /\ v_printed' =
                 v_printed
                 \o (IF obs_bad THEN << <<"Inconsistent obs shape at step", v_i>> >> ELSE <<>>)
                 \o (IF act_bad THEN << <<"Inconsistent act shape at step", v_i>> >> ELSE <<>>)
    /\ v_i' = v_i + 1
    /\ UNCHANGED <<v_pc, v_metadata, v_trajectories, checks_passed, nonVerifierVars>>

\* if shapes_consistent: print 'All shapes consistent'
ShapeCheckReport ==
    /\ v_pc = "shapes"
    /\ v_i >= Min(ShapeCheckSteps, Len(v_trajectories))
    /\ v_printed' =
          IF shapes_consistent
          THEN Append(v_printed, <<"All shapes consistent">>)
          ELSE v_printed
    /\ v_pc' = "summary"
    /\ UNCHANGED <<v_metadata, v_trajectories, v_i, shapes_consistent,
                   checks_passed, nonVerifierVars>>

\* the summary: the shape check and the trajectory count check are counted
\* (the three other checks depend on the simulator and on the stored values)
VerifySummary ==
    /\ v_pc = "summary"
    /\ checks_passed' =
          (IF shapes_consistent THEN {"shapes"} ELSE {})
          \cup (IF Len(v_trajectories) = v_metadata.n_timesteps THEN {"count"} ELSE {})
    /\ v_pc' = "done"
    /\ UNCHANGED <<v_metadata, v_trajectories, v_i, shapes_consistent, v_printed,
                   nonVerifierVars>>

NextVerify ==
    \/ ShapeCheckStep
    \/ ShapeCheckReport
    \/ VerifySummary

SpecVerify == InitVerify /\ [][NextVerify]_vars

\* ---- the vault converters ----

\* the four converter functions
JsonConverter == "vault_to_json"
NpzConverter == "vault_to_npz"
ChunkedConverter == "vault_to_npz_chunked"
SampleConverter == "vault_to_npz_sample"
Converters == {JsonConverter, NpzConverter, ChunkedConverter, SampleConverter}

\* quality=None, the default of every converter and of argparse's --quality
NoQuality == "None"
\* names an entry of the vault directory can have
EntryNames == {"Good", "Medium", "Poor"}
\* values of the quality argument: None, the empty string, and names
RequestedQualities == {NoQuality, "", "Good", "Poor", "Replay"}

\* python truthiness of the quality argument: if quality:
Truthy(q) == q # NoQuality /\ q # ""

\* the elements of a sequence
Range(seq) == { seq[k] : k \in 1..Len(seq) }

\* vault_dir.iterdir(): the entries of the directory, each once, in arbitrary
\* order; an entry is a quality when it is a directory holding metadata.json
Listings ==
    UNION { { l \in [1..n -> [name : EntryNames, is_quality : BOOLEAN]] :
                \A i, j \in 1..n : i # j => l[i].name # l[j].name } :
            n \in 0..Cardinality(EntryNames) }

IsQuality(item) == item.is_quality

\* the scan without its filter: every entry's name
DiscoveredAnyEntry(entries) == [ k \in 1..Len(entries) |-> entries[k].name ]

\* [d.name for d in vault_dir.iterdir()
\*  if d.is_dir() and (d / 'metadata.json').exists()]
Discovered(entries) ==
    LET kept == SelectSeq(entries, IsQuality)
    IN  [ k \in 1..Len(kept) |-> kept[k].name ]

\* quality if quality in available_qualities else available_qualities[0]
\* (vault_to_npz_chunked, vault_to_npz_sample)
FallbackSelection(q, available) ==
    IF q \in Range(available) THEN q ELSE available[1]

ConverterStart ==
    /\ c_pc = "start"
    /\ converter \in Converters
    /\ vault_exists \in BOOLEAN
    /\ listing \in (IF vault_exists THEN Listings ELSE {<<>>})
    /\ quality \in RequestedQualities
    /\ all_qualities \in (IF converter = NpzConverter THEN BOOLEAN ELSE {FALSE})
    /\ available_qualities = <<>>
    /\ qualities_to_convert = <<>>
    /\ attempted = <<>>
    /\ outputs = {}
    /\ c_printed = {}
    /\ c_err = ""

InitConvert == ConverterStart /\ RankerIdle /\ VerifierIdle /\ ToolsIdle

\* if not vault_dir.exists(): return; then the scan of vault_dir.iterdir().
\* vault_to_npz_sample has no existence check: iterdir() raises
Discover ==
    /\ c_pc = "start"
    /\ IF ~vault_exists
       THEN IF converter = SampleConverter
            THEN /\ c_err' = "FileNotFoundError"
                 /\ c_pc' = "error"
                 /\ UNCHANGED <<available_qualities, c_printed>>
            ELSE /\ c_printed' = c_printed \cup {"Error: Vault not found"}
                 /\ c_pc' = "done"
                 /\ UNCHANGED <<available_qualities, c_err>>
       ELSE /\ available_qualities' = Discovered(listing)
            /\ c_pc' = "select"
            /\ UNCHANGED <<c_printed, c_err>>
    /\ UNCHANGED <<converter, vault_exists, listing, quality, all_qualities,
                   qualities_to_convert, attempted, outputs,
                   nonConverterVars>>

\* the choice of the qualities to convert, after the empty-vault check
\* (vault_to_npz_sample has none: available_qualities[0] raises)
SelectQuality ==
    /\ c_pc = "select"
    /\ IF available_qualities = <<>>
       THEN IF converter = SampleConverter
            THEN /\ c_err' = "IndexError"
                 /\ c_pc' = "error"
                 /\ UNCHANGED <<qualities_to_convert, c_printed>>
            ELSE /\ c_printed' = c_printed \cup {"Error: No quality directories found"}
                 /\ c_pc' = "done"
                 /\ UNCHANGED <<qualities_to_convert, c_err>>
       ELSE IF converter \in {ChunkedConverter, SampleConverter}
       THEN /\ qualities_to_convert' = <<FallbackSelection(quality, available_qualities)>>
            /\ c_pc' = "convert"
            /\ UNCHANGED <<c_printed, c_err>>
       ELSE IF all_qualities
       THEN /\ qualities_to_convert' = available_qualities
            /\ c_pc' = "convert"
            /\ UNCHANGED <<c_printed, c_err>>
       ELSE IF Truthy(quality)
       THEN IF quality \notin Range(available_qualities)
            THEN /\ c_printed' = c_printed \cup {"Error: Quality not found"}
                 /\ c_pc' = "done"
                 /\ UNCHANGED <<qualities_to_convert, c_err>>
            ELSE /\ qualities_to_convert' = <<quality>>
                 /\ c_pc' = "convert"
                 /\ UNCHANGED <<c_printed, c_err>>
       ELSE /\ qualities_to_convert' = <<available_qualities[1]>>
            /\ c_printed' = c_printed \cup {"Auto-selected quality"}
            /\ c_pc' = "convert"
            /\ UNCHANGED c_err
    /\ UNCHANGED <<converter, vault_exists, listing, quality, all_qualities,
                   available_qualities, attempted, outputs, nonConverterVars>>

\* the try block for one quality: the vault is read and the output file
\* written, or an exception is caught and reported
ConvertQuality ==
    /\ c_pc = "convert"
    /\ Len(attempted) < Len(qualities_to_convert)
    /\ LET q == qualities_to_convert[Len(attempted) + 1]
       IN  /\ attempted' = Append(attempted, q)
           /\ \E loaded \in BOOLEAN :
                IF loaded
                THEN /\ outputs' = outputs \cup {q}
                     /\ c_printed' = c_printed \cup {"Saved"}
                ELSE /\ outputs' = outputs
                     /\ c_printed' = c_printed \cup {"Failed"}
    /\ UNCHANGED <<c_pc, converter, vault_exists, listing, quality, all_qualities,
                   available_qualities, qualities_to_convert, c_err,
                   nonConverterVars>>

\* the end of the function, after the last quality
ConvertFinish ==
    /\ c_pc = "convert"
    /\ Len(attempted) = Len(qualities_to_convert)
    /\ c_pc' = "done"
    /\ UNCHANGED <<converter, vault_exists, listing, quality, all_qualities,
                   available_qualities, qualities_to_convert, attempted, outputs,
                   c_printed, c_err, nonConverterVars>>

NextConvert ==
    \/ Discover
    \/ SelectQuality
    \/ ConvertQuality
    \/ ConvertFinish

SpecConvert == InitConvert /\ [][NextConvert]_vars

\* ---- the action exporters ----

VaultActionsScript == "export_vault_actions"
SimpleActionsScript == "export_actions_simple"
ExporterScripts == {VaultActionsScript, SimpleActionsScript}
\* choices of --format
ExportFormats == {"csv", "json", "txt", "all"}
\* joint actions, per-agent terminal flags and per-agent rewards of one timestep
ActionValues == {0, 1}
TerminalRows == { <<FALSE, FALSE>>, <<FALSE, TRUE>>, <<TRUE, TRUE>> }
RewardRows == { <<1, 0>>, <<1, 2>> }
\* max_episodes: int = 10
DefaultMaxEpisodes == 10

\* a row of flags that is true only when every agent's flag is
AllFlags(row) == \A a \in 1..Len(row) : row[a]

\* terminals[t].any()
AnyFlag(row) == \E a \in 1..Len(row) : row[a]

\* terminals is not None.  export_actions_simple holds
\* np.array(vault_data.get('terminals', None)), which is an array also when
\* the key is missing
TerminalsNotNone ==
    IF x_script = SimpleActionsScript THEN TRUE ELSE has_terminals

\* rewards is not None, likewise
RewardsNotNone ==
    IF x_script = SimpleActionsScript THEN TRUE ELSE has_rewards

\* terminals[t] raises IndexError: np.array(None) has no dimension to index
TerminalsIndexError == TerminalsNotNone /\ ~has_terminals
\* rewards[t] raises IndexError, likewise
RewardsIndexError == RewardsNotNone /\ ~has_rewards

\* args.format in [f, 'all']
Wanted(f) == x_format \in {f, "all"}

\* main: the export that follows a stage, in the order csv, json, txt
StageAfter(stage) ==
    IF stage = "main" /\ Wanted("csv") THEN "csv"
    ELSE IF stage \in {"main", "csv"} /\ Wanted("json") THEN "json"
    ELSE IF stage \in {"main", "csv", "json"} /\ Wanted("txt") THEN "txt"
    ELSE "done"

\* {'episode_num': len(episodes), 'length': len(episode_actions),
\*  'actions': episode_actions}, with 'incomplete': True for the remainder
Episode(closed, acts, incomplete) ==
    [ episode_num |-> Len(closed), length |-> Len(acts), actions |-> acts,
      incomplete |-> incomplete ]

\* a remainder is appended whatever it holds
AlwaysRemaining(acts) == TRUE

\* if episode_actions:
HasRemaining(acts) == acts # <<>>

\* an episode counter that never advances
SameEpisodeNum(n, is_terminal) == n

\* if is_terminal: episode_num += 1
NextEpisodeNum(n, is_terminal) == IF is_terminal THEN n + 1 ELSE n

\* a length that leaves out the terminal timestep
EpisodeLengthExclusive(t, start) == t - start

\* t - episode_start + 1
EpisodeLength(t, start) == t - start + 1

\* np.zeros(num_agents)
ZeroReturn == <<0, 0>>

\* episode_return += rewards[t]
AddRows(a, b) == [ i \in 1..Len(a) |-> a[i] + b[i] ]

\* one block of the text file, tagged with the timestep whose iteration
\* wrote it: the EPISODE header (value: episode number), a Timestep entry
\* (value: episode step, ret: the rewards line), the EPISODE END block
\* (value: Episode Length, ret: Episode Return), the truncation notice
Block(kind, t, value, ret) == [ kind |-> kind, t |-> t, value |-> value, ret |-> ret ]

\* the exporters' locals before any export function ran
ExporterLocalsInit ==
    /\ x_t = 0
    /\ episodes = <<>>
    /\ episode_actions = <<>>
    /\ json_file = NoFile
    /\ episode_num = 0
    /\ csv_file = NotOpened
    /\ episode_start = 0
    /\ episode_return = <<>>
    /\ episodes_written = 0
    /\ txt_file = NotOpened
    /\ x_err = ""

\* main of either script on loaded vault data: any actions, terminals
\* present or missing
InitExport ==
    /\ x_pc = "main"
    /\ x_script \in ExporterScripts
    /\ x_format \in ExportFormats
    /\ \E T \in 0..MaxSteps :
         /\ actions \in [1..T -> ActionValues]
         /\ has_terminals \in BOOLEAN
         /\ terminals \in (IF has_terminals THEN [1..T -> TerminalRows] ELSE {<<>>})
         /\ x_rewards = [ t \in 1..T |-> <<1, 0>> ]
    /\ has_rewards = TRUE
    /\ max_episodes = DefaultMaxEpisodes
    /\ ExporterLocalsInit
    /\ RankerIdle
    /\ VerifierIdle
    /\ ConverterIdle
    /\ BatchIdle
    /\ DirectoryIdle
    /\ ProgressionIdle
    /\ RecorderIdle

\* export_actions_to_txt called on its own: any terminals, rewards and
\* max_episodes (export_actions_simple's has no max_episodes)
InitTxt ==
    /\ x_pc = "txt"
    /\ x_script \in ExporterScripts
    /\ x_format = "txt"
    /\ \E T \in 0..MaxSteps :
         /\ actions = [ t \in 1..T |-> 0 ]
         /\ has_terminals \in BOOLEAN
         /\ terminals \in (IF has_terminals THEN [1..T -> TerminalRows] ELSE {<<>>})
         /\ has_rewards \in BOOLEAN
         /\ x_rewards \in (IF has_rewards THEN [1..T -> RewardRows] ELSE {<<>>})
    /\ max_episodes \in (IF x_script = VaultActionsScript THEN 0..MaxEpisodes ELSE {0})
    /\ ExporterLocalsInit
    /\ RankerIdle
    /\ VerifierIdle
    /\ ConverterIdle
    /\ BatchIdle
    /\ DirectoryIdle
    /\ ProgressionIdle
    /\ RecorderIdle

\* main: the first requested export
ExportMain ==
    /\ x_pc = "main"
    /\ x_pc' = StageAfter("main")
    /\ UNCHANGED <<x_script, x_format, actions, has_terminals, terminals,
                   has_rewards, x_rewards, max_episodes, x_t, episodes,
                   episode_actions, json_file, episode_num, csv_file,
                   episode_start, episode_return, episodes_written, txt_file,
                   x_err, nonExporterVars>>

\* export_actions_to_json: episodes = []; episode_actions = []
JsonStart ==
    /\ x_pc = "json"
    /\ episodes' = <<>>
    /\ episode_actions' = <<>>
    /\ x_t' = 0
    /\ x_pc' = "json_loop"
    /\ UNCHANGED <<x_script, x_format, actions, has_terminals, terminals,
                   has_rewards, x_rewards, max_episodes, json_file, episode_num,
                   csv_file, episode_start, episode_return, episodes_written,
                   txt_file, x_err, nonExporterVars>>

\* one iteration of: for t in range(len(actions))
JsonStep ==
    /\ x_pc = "json_loop"
    /\ x_t < Len(actions)
    /\ LET appended == Append(episode_actions, actions[x_t + 1])
       IN  IF TerminalsIndexError
           THEN /\ episode_actions' = appended
                /\ x_err' = "IndexError"
                /\ x_pc' = "error"
                /\ UNCHANGED <<episodes, x_t>>
           ELSE /\ IF TerminalsNotNone /\ AnyFlag(terminals[x_t + 1])
                   THEN /\ episodes' = Append(episodes, Episode(episodes, appended, FALSE))
                        /\ episode_actions' = <<>>
                   ELSE /\ episode_actions' = appended
                        /\ UNCHANGED episodes
                /\ x_t' = x_t + 1
                /\ UNCHANGED <<x_pc, x_err>>
    /\ UNCHANGED <<x_script, x_format, actions, has_terminals, terminals,
                   has_rewards, x_rewards, max_episodes, json_file, episode_num,
                   csv_file, episode_start, episode_return, episodes_written,
                   txt_file, nonExporterVars>>

\* after the loop: the remainder becomes an incomplete episode and the file
\* is written
JsonFinish ==
    /\ x_pc = "json_loop"
    /\ x_t = Len(actions)
    /\ LET all == IF HasRemaining(episode_actions)
                  THEN Append(episodes, Episode(episodes, episode_actions, TRUE))
                  ELSE episodes
       IN  /\ episodes' = all
           /\ json_file' = [ written |-> TRUE, total_timesteps |-> Len(actions),
                             num_episodes |-> Len(all), episodes |-> all ]
    /\ x_pc' = StageAfter("json")
    /\ UNCHANGED <<x_script, x_format, actions, has_terminals, terminals,
                   has_rewards, x_rewards, max_episodes, x_t, episode_actions,
                   episode_num, csv_file, episode_start, episode_return,
                   episodes_written, txt_file, x_err, nonExporterVars>>

\* export_actions_to_csv: the file is opened and the header written
CsvOpen ==
    /\ x_pc = "csv"
    /\ csv_file' = [ opened |-> TRUE, closed |-> FALSE,
                     has_episode_end |-> TerminalsNotNone, rows |-> <<>> ]
    /\ episode_num' = 0
    /\ x_t' = 0
    /\ x_pc' = "csv_loop"
    /\ UNCHANGED <<x_script, x_format, actions, has_terminals, terminals,
                   has_rewards, x_rewards, max_episodes, episodes,
                   episode_actions, json_file, episode_start, episode_return,
                   episodes_written, txt_file, x_err, nonExporterVars>>

\* one iteration of: for t in range(num_timesteps)
CsvRow ==
    /\ x_pc = "csv_loop"
    /\ x_t < Len(actions)
    /\ IF TerminalsIndexError
       THEN /\ x_err' = "IndexError"
            /\ x_pc' = "error"
            /\ UNCHANGED <<csv_file, episode_num, x_t>>
       ELSE LET is_terminal == TerminalsNotNone /\ AnyFlag(terminals[x_t + 1])
                row == [ timestep |-> x_t, episode |-> episode_num,
                         action |-> actions[x_t + 1],
                         has_episode_end |-> TerminalsNotNone,
                         episode_end |-> is_terminal ]
            IN  /\ csv_file' = [csv_file EXCEPT !.rows = Append(@, row)]
                /\ episode_num' = NextEpisodeNum(episode_num, is_terminal)
                /\ x_t' = x_t + 1
                /\ UNCHANGED <<x_pc, x_err>>
    /\ UNCHANGED <<x_script, x_format, actions, has_terminals, terminals,
                   has_rewards, x_rewards, max_episodes, episodes,
                   episode_actions, json_file, episode_start, episode_return,
                   episodes_written, txt_file, nonExporterVars>>

\* the with block ends: the file is closed
CsvClose ==
    /\ x_pc = "csv_loop"
    /\ x_t = Len(actions)
    /\ csv_file' = [csv_file EXCEPT !.closed = TRUE]
    /\ x_pc' = StageAfter("csv")
    /\ UNCHANGED <<x_script, x_format, actions, has_terminals, terminals,
                   has_rewards, x_rewards, max_episodes, x_t, episodes,
                   episode_actions, json_file, episode_num, episode_start,
                   episode_return, episodes_written, txt_file, x_err,
                   nonExporterVars>>

\* export_actions_to_txt: the file is opened and the counters initialised
TxtOpen ==
    /\ x_pc = "txt"
    /\ txt_file' = [ opened |-> TRUE, closed |-> FALSE, blocks |-> <<>> ]
    /\ episode_num' = 0
    /\ episode_start' = 0
    /\ episode_return' = ZeroReturn
    /\ episodes_written' = 0
    /\ x_t' = 0
    /\ x_pc' = "txt_loop"
    /\ UNCHANGED <<x_script, x_format, actions, has_terminals, terminals,
                   has_rewards, x_rewards, max_episodes, episodes,
                   episode_actions, json_file, csv_file, x_err,
                   nonExporterVars>>

\* one iteration of: for t in range(len(actions)).  Only
\* export_vault_actions has the max_episodes limit
TxtStep ==
    /\ x_pc = "txt_loop"
    /\ x_t < Len(actions)
    /\ LET limited == x_script = VaultActionsScript
           shown == ~limited \/ episodes_written < max_episodes
           header == IF x_t = episode_start
                     THEN << Block("episode", x_t, episode_num, <<>>) >>
                     ELSE <<>>
           entry(ret) == Block("timestep", x_t, x_t - episode_start, ret)
       IN  IF limited /\ x_t = episode_start /\ episodes_written >= max_episodes
           THEN \* the notice, then break
                /\ txt_file' = [txt_file EXCEPT
                                  !.blocks = Append(@, Block("truncated", x_t, max_episodes, <<>>)),
                                  !.closed = TRUE]
                /\ x_pc' = StageAfter("txt")
                /\ UNCHANGED <<episode_num, episode_start, episode_return,
                               episodes_written, x_t, x_err>>
           ELSE IF shown /\ RewardsIndexError
           THEN /\ txt_file' = [txt_file EXCEPT
                                  !.blocks = @ \o header \o << entry(<<>>) >>,
                                  !.closed = TRUE]
                /\ x_err' = "IndexError"
                /\ x_pc' = "error"
                /\ UNCHANGED <<episode_num, episode_start, episode_return,
                               episodes_written, x_t>>
           ELSE LET added == IF shown /\ RewardsNotNone
                             THEN AddRows(episode_return, x_rewards[x_t + 1])
                             ELSE episode_return
                    shown_entry == IF shown
                                   THEN << entry(IF RewardsNotNone
                                                 THEN x_rewards[x_t + 1] ELSE <<>>) >>
                                   ELSE <<>>
                IN  IF TerminalsIndexError
                    THEN /\ txt_file' = [txt_file EXCEPT
                                           !.blocks = @ \o header \o shown_entry,
                                           !.closed = TRUE]
                         /\ episode_return' = added
                         /\ x_err' = "IndexError"
                         /\ x_pc' = "error"
                         /\ UNCHANGED <<episode_num, episode_start,
                                        episodes_written, x_t>>
                    ELSE LET is_terminal == TerminalsNotNone /\ AnyFlag(terminals[x_t + 1])
                             end == IF is_terminal /\ shown
                                    THEN << Block("end", x_t,
                                                  EpisodeLength(x_t, episode_start),
                                                  IF RewardsNotNone THEN added ELSE <<>>) >>
                                    ELSE <<>>
                         IN  /\ txt_file' = [txt_file EXCEPT
                                               !.blocks = @ \o header \o shown_entry \o end]
                             /\ IF is_terminal
                                THEN /\ episode_num' = episode_num + 1
                                     /\ episodes_written' =
                                          IF limited THEN episodes_written + 1
                                          ELSE episodes_written
                                     /\ episode_start' = x_t + 1
                                     /\ episode_return' = ZeroReturn
                                ELSE /\ episode_return' = added
                                     /\ UNCHANGED <<episode_num, episodes_written,
                                                    episode_start>>
                             /\ x_t' = x_t + 1
                             /\ UNCHANGED <<x_pc, x_err>>
    /\ UNCHANGED <<x_script, x_format, actions, has_terminals, terminals,
                   has_rewards, x_rewards, max_episodes, episodes,
                   episode_actions, json_file, csv_file, nonExporterVars>>

\* the loop ran to its end: the file is closed
TxtClose ==
    /\ x_pc = "txt_loop"
    /\ x_t = Len(actions)
    /\ txt_file' = [txt_file EXCEPT !.closed = TRUE]
    /\ x_pc' = StageAfter("txt")
    /\ UNCHANGED <<x_script, x_format, actions, has_terminals, terminals,
                   has_rewards, x_rewards, max_episodes, x_t, episodes,
                   episode_actions, json_file, episode_num, csv_file,
                   episode_start, episode_return, episodes_written, x_err,
                   nonExporterVars>>

NextTxt ==
    \/ TxtOpen
    \/ TxtStep
    \/ TxtClose

NextExport ==
    \/ ExportMain
    \/ JsonStart
    \/ JsonStep
    \/ JsonFinish
    \/ CsvOpen
    \/ CsvRow
    \/ CsvClose
    \/ NextTxt

SpecExport == InitExport /\ [][NextExport]_vars

SpecTxt == InitTxt /\ [][NextTxt]_vars

\* ---- batch_record ----

\* the files in descending order
RECURSIVE DescendingSeq(_)
DescendingSeq(files) ==
    IF files = {} THEN <<>>
    ELSE LET last == CHOOSE f \in files : \A g \in files : g <= f
         IN  <<last>> \o DescendingSeq(files \ {last})

\* sorted(...) of the glob result; a file is named by its rank in path order
RECURSIVE SortedSeq(_)
SortedSeq(files) ==
    IF files = {} THEN <<>>
    ELSE LET first == CHOOSE f \in files : \A g \in files : f <= g
         IN  <<first>> \o SortedSeq(files \ {first})

\* a check that never finds the video
VideoNeverExists(f) == FALSE

\* video_file.exists()
VideoExists(f) == f \in videos

\* what can happen to a file that is not skipped: the JSON cannot be read
\* (no recorder call), the recorder exits 0 with or without the video on
\* disk, exits non-zero or times out, each with or without a partial video
RecordOutcomes ==
    { [called |-> FALSE, result |-> "unreadable", video |-> FALSE],
      [called |-> TRUE, result |-> "created", video |-> TRUE],
      [called |-> TRUE, result |-> "exit 0, no video", video |-> FALSE],
      [called |-> TRUE, result |-> "failed", video |-> FALSE],
      [called |-> TRUE, result |-> "failed", video |-> TRUE],
      [called |-> TRUE, result |-> "timeout", video |-> FALSE],
      [called |-> TRUE, result |-> "timeout", video |-> TRUE] }

\* batch_record called on a pattern: any set of matching files, any of
\* them already with a video
InitBatch ==
    /\ b_pc = "start"
    /\ matching \in SUBSET (1..MaxFiles)
    /\ json_files = <<>>
    /\ videos \in SUBSET matching
    /\ b_i = 0
    /\ b_log = <<>>
    /\ b_run = 1
    /\ first_success = FALSE
    /\ RankerIdle
    /\ VerifierIdle
    /\ ConverterIdle
    /\ ExporterIdle
    /\ DirectoryIdle
    /\ ProgressionIdle
    /\ RecorderIdle

\* json_files = sorted(...glob(...)); return when there are none
BatchStart ==
    /\ b_pc = "start"
    /\ json_files' = SortedSeq(matching)
    /\ b_pc' = IF matching = {} THEN "done" ELSE "loop"
    /\ UNCHANGED <<matching, videos, b_i, b_log, b_run, first_success,
                   nonBatchVars>>

\* one iteration of: for i, json_file in enumerate(json_files, 1)
BatchStep ==
    /\ b_pc = "loop"
    /\ b_i < Len(json_files)
    /\ LET file == json_files[b_i + 1]
           had_video == file \in videos
       IN  IF VideoExists(file)
           THEN /\ b_log' = Append(b_log, [file |-> file, had_video |-> had_video,
                                           called |-> FALSE, result |-> "skipped"])
                /\ UNCHANGED videos
           ELSE \E outcome \in RecordOutcomes :
                /\ b_log' = Append(b_log, [file |-> file, had_video |-> had_video,
                                           called |-> outcome.called,
                                           result |-> outcome.result])
                /\ videos' = IF outcome.video THEN videos \cup {file} ELSE videos
    /\ b_i' = b_i + 1
    /\ UNCHANGED <<b_pc, matching, json_files, b_run, first_success, nonBatchVars>>

\* after the loop: "Done! Processed ... files"
BatchFinish ==
    /\ b_pc = "loop"
    /\ b_i = Len(json_files)
    /\ b_pc' = "done"
    /\ UNCHANGED <<matching, json_files, videos, b_i, b_log, b_run,
                   first_success, nonBatchVars>>

\* batch_record called once more with the same pattern
BatchRunAgain ==
    /\ b_pc = "done"
    /\ b_run = 1
    /\ b_run' = 2
    /\ first_success' = \A k \in 1..Len(b_log) :
                            b_log[k].result \in {"skipped", "created"}
    /\ b_pc' = "start"
    /\ json_files' = <<>>
    /\ b_i' = 0
    /\ b_log' = <<>>
    /\ UNCHANGED <<matching, videos, nonBatchVars>>

NextBatch ==
    \/ BatchStart
    \/ BatchStep
    \/ BatchFinish
    \/ BatchRunAgain

SpecBatch == InitBatch /\ [][NextBatch]_vars

\* ---- convert_vault_to_json.py ----

\* directories the process can be in and the vault can lie in
Directories == {"/", "/data", "/work"}
VaultParents == {"/data", "/work"}

\* vault_path.relative_to(current_dir) does not raise
IsUnder(dir, current_dir) == current_dir = "/" \/ current_dir = dir

\* the except branch leaves the directory where it is
StayInDirectory(original, current) == current

\* the directory after os.chdir(original_dir)
RestoredDirectory(original, current) == original

InitDirectory ==
    /\ d_pc = "start"
    /\ flashbax_available \in BOOLEAN
    /\ cwd \in Directories
    /\ entry_cwd = cwd
    /\ vault_parent \in VaultParents
    /\ original_dir = ""
    /\ d_events = {}
    /\ d_result = ""
    /\ RankerIdle
    /\ VerifierIdle
    /\ ConverterIdle
    /\ ExporterIdle
    /\ BatchIdle
    /\ ProgressionIdle
    /\ RecorderIdle

\* if not FLASHBAX_AVAILABLE: return None
ConvertEnter ==
    /\ d_pc = "start"
    /\ IF flashbax_available
       THEN d_pc' = "method1" /\ UNCHANGED d_result
       ELSE d_pc' = "done" /\ d_result' = "None"
    /\ UNCHANGED <<flashbax_available, cwd, entry_cwd, vault_parent,
                   original_dir, d_events, nonDirectoryVars>>

\* METHOD 1: Vault(vault_path_unix, ...) and read, or an exception
Method1 ==
    /\ d_pc = "method1"
    /\ \E loaded \in BOOLEAN :
         /\ d_pc' = IF loaded THEN "loaded" ELSE "method2"
         /\ d_events' = d_events \cup {IF loaded THEN "method 1 loaded" ELSE "method 1 failed"}
    /\ UNCHANGED <<flashbax_available, cwd, entry_cwd, vault_parent,
                   original_dir, d_result, nonDirectoryVars>>

\* METHOD 2: the path relative to Path.cwd(), or an exception
Method2 ==
    /\ d_pc = "method2"
    /\ \E loaded \in BOOLEAN :
         LET ok == IsUnder(vault_parent, cwd) /\ loaded
         IN  /\ d_pc' = IF ok THEN "loaded" ELSE "method3"
             /\ d_events' = d_events \cup {IF ok THEN "method 2 loaded" ELSE "method 2 failed"}
    /\ UNCHANGED <<flashbax_available, cwd, entry_cwd, vault_parent,
                   original_dir, d_result, nonDirectoryVars>>

\* METHOD 3: if vault_dir.exists(): original_dir = Path.cwd(); else raise
Method3Enter ==
    /\ d_pc = "method3"
    /\ \E exists \in BOOLEAN :
         IF exists
         THEN /\ original_dir' = cwd
              /\ d_pc' = "method3_chdir"
              /\ UNCHANGED d_events
         ELSE /\ d_pc' = "manual"
              /\ d_events' = d_events \cup {"vault directory not found"}
              /\ UNCHANGED original_dir
    /\ UNCHANGED <<flashbax_available, cwd, entry_cwd, vault_parent, d_result,
                   nonDirectoryVars>>

\* os.chdir(vault_path.parent), which can itself raise
Method3Chdir ==
    /\ d_pc = "method3_chdir"
    /\ \E changed \in BOOLEAN :
         IF changed
         THEN /\ cwd' = vault_parent
              /\ d_pc' = "method3_load"
              /\ UNCHANGED d_events
         ELSE /\ d_pc' = "method3_except"
              /\ d_events' = d_events \cup {"chdir failed"}
              /\ UNCHANGED cwd
    /\ UNCHANGED <<flashbax_available, entry_cwd, vault_parent, original_dir,
                   d_result, nonDirectoryVars>>

\* Vault(vault_name, ...) and read inside the changed directory
Method3Load ==
    /\ d_pc = "method3_load"
    /\ \E loaded \in BOOLEAN :
         /\ d_pc' = IF loaded THEN "method3_back" ELSE "method3_except"
         /\ d_events' = d_events \cup {IF loaded THEN "method 3 loaded"
                                      ELSE "method 3 failed in the directory"}
    /\ UNCHANGED <<flashbax_available, cwd, entry_cwd, vault_parent,
                   original_dir, d_result, nonDirectoryVars>>

\* os.chdir(original_dir) after the successful load
Method3Back ==
    /\ d_pc = "method3_back"
    /\ cwd' = original_dir
    /\ d_pc' = "loaded"
    /\ UNCHANGED <<flashbax_available, entry_cwd, vault_parent, original_dir,
                   d_events, d_result, nonDirectoryVars>>

\* except Exception as e_inner: os.chdir(original_dir); raise e_inner
Method3Except ==
    /\ d_pc = "method3_except"
    /\ cwd' = RestoredDirectory(original_dir, cwd)
    /\ d_pc' = "manual"
    /\ UNCHANGED <<flashbax_available, entry_cwd, vault_parent, original_dir,
                   d_events, d_result, nonDirectoryVars>>

\* all methods failed: return load_vault_manually(vault_path, quality)
ManualLoad ==
    /\ d_pc = "manual"
    /\ d_result' = "None"
    /\ d_pc' = "done"
    /\ UNCHANGED <<flashbax_available, cwd, entry_cwd, vault_parent,
                   original_dir, d_events, nonDirectoryVars>>

\* the vault was loaded: the data is converted and returned, or the
\* conversion raises
ExtractData ==
    /\ d_pc = "loaded"
    /\ d_result' \in {"readable_data", "raised"}
    /\ d_pc' = "done"
    /\ UNCHANGED <<flashbax_available, cwd, entry_cwd, vault_parent,
                   original_dir, d_events, nonDirectoryVars>>

NextDirectory ==
    \/ ConvertEnter
    \/ Method1
    \/ Method2
    \/ Method3Enter
    \/ Method3Chdir
    \/ Method3Load
    \/ Method3Back
    \/ Method3Except
    \/ ManualLoad
    \/ ExtractData

SpecDirectory == InitDirectory /\ [][NextDirectory]_vars

\* ---- create_progression_videos ----

\* create_progression_videos called with num_videos >= 1 and
\* 1 <= episode_length <= n_timesteps
InitProgression ==
    /\ p_pc = "start"
    /\ num_videos \in 1..MaxVideos
    /\ p_timesteps \in 1..MaxT
    /\ p_length \in 1..p_timesteps
    /\ sample_starts = <<>>
    /\ segments = <<>>
    /\ p_err = ""
    /\ RankerIdle
    /\ VerifierIdle
    /\ ConverterIdle
    /\ ExporterIdle
    /\ BatchIdle
    /\ DirectoryIdle
    /\ RecorderIdle

\* step_size = (n_timesteps - episode_length) // (num_videos - 1)
\* sample_starts = [i * step_size for i in range(num_videos - 1)]
\* sample_starts.append(n_timesteps - episode_length)
ComputeStarts ==
    /\ p_pc = "start"
    /\ IF num_videos - 1 = 0
       THEN /\ p_err' = "ZeroDivisionError"
            /\ p_pc' = "error"
            /\ UNCHANGED sample_starts
       ELSE LET step_size == (p_timesteps - p_length) \div (num_videos - 1)
            IN  /\ sample_starts' =
                     [ k \in 1..(num_videos - 1) |-> (k - 1) * step_size ]
                     \o << p_timesteps - p_length >>
                /\ p_pc' = "segments"
                /\ UNCHANGED p_err
    /\ UNCHANGED <<num_videos, p_length, p_timesteps, segments,
                   nonProgressionVars>>

\* one iteration of: for i, start in enumerate(sample_starts): the segment
\* is cut out and written as JSON
ExportSegment ==
    /\ p_pc = "segments"
    /\ Len(segments) < Len(sample_starts)
    /\ LET start == sample_starts[Len(segments) + 1]
           end == start + p_length
       IN  segments' = Append(segments,
                              [ start |-> start, end |-> end,
                                steps |-> Len(PyRange(start, end, 1)) ])
    /\ UNCHANGED <<p_pc, num_videos, p_length, p_timesteps, sample_starts,
                   p_err, nonProgressionVars>>

\* the videos are recorded from the segment files and the summary printed
RecordSegments ==
    /\ p_pc = "segments"
    /\ Len(segments) = Len(sample_starts)
    /\ p_pc' = "done"
    /\ UNCHANGED <<num_videos, p_length, p_timesteps, sample_starts, segments,
                   p_err, nonProgressionVars>>

NextProgression ==
    \/ ComputeStarts
    \/ ExportSegment
    \/ RecordSegments

SpecProgression == InitProgression /\ [][NextProgression]_vars

\* ---- record_trajectory ----

\* a replay that ignores num_steps
ReplayAll(steps, stored) == stored

\* min(num_steps, len(trajectories))
ReplayCount(steps, stored) == Min(steps, stored)

\* what one iteration can meet: a KeyboardInterrupt before the action is
\* applied or after it and before the frame is stored, an exception of the
\* simulator, or a completed step after which the episode runs on, has
\* terminated or was truncated
StepOutcomes ==
    { "interrupt before step", "interrupt before frame", "exception",
      "running", "terminated", "truncated" }

\* record_trajectory after the environment was created and reset: stored
\* action k is named k
InitRecorder ==
    /\ r_pc = "replay"
    /\ num_steps \in 0..(MaxReplay + 1)
    /\ \E n \in 0..MaxReplay : r_trajectories = [ k \in 1..n |-> k ]
    /\ r_i = 0
    /\ replayed = <<>>
    /\ frames = <<>>
    /\ resets = <<>>
    /\ env_open = TRUE
    /\ interrupted = FALSE
    /\ saved = NoFile
    /\ r_err = ""
    /\ RankerIdle
    /\ VerifierIdle
    /\ ConverterIdle
    /\ ExporterIdle
    /\ BatchIdle
    /\ DirectoryIdle
    /\ ProgressionIdle

\* one iteration of: for i in range(min(num_steps, len(trajectories)))
ReplayStep ==
    /\ r_pc = "replay"
    /\ r_i < ReplayCount(num_steps, Len(r_trajectories))
    /\ \E outcome \in StepOutcomes :
         LET stored_actions == r_trajectories[r_i + 1]
         IN  CASE outcome = "interrupt before step" ->
                    /\ interrupted' = TRUE
                    /\ r_pc' = "close"
                    /\ UNCHANGED <<r_i, replayed, frames, resets, r_err>>
               [] outcome = "interrupt before frame" ->
                    /\ replayed' = Append(replayed, stored_actions)
                    /\ interrupted' = TRUE
                    /\ r_pc' = "close"
                    /\ UNCHANGED <<r_i, frames, resets, r_err>>
               [] outcome = "exception" ->
                    /\ r_err' = "Exception"
                    /\ r_pc' = "error"
                    /\ UNCHANGED <<r_i, replayed, frames, resets, interrupted>>
               [] OTHER ->
                    /\ replayed' = Append(replayed, stored_actions)
                    /\ frames' = Append(frames, stored_actions)
                    /\ resets' = IF outcome \in {"terminated", "truncated"}
                                 THEN Append(resets, r_i) ELSE resets
                    /\ r_i' = r_i + 1
                    /\ UNCHANGED <<r_pc, interrupted, r_err>>
    /\ UNCHANGED <<num_steps, r_trajectories, env_open, saved, nonRecorderVars>>

\* the loop has run through its range
ReplayEnd ==
    /\ r_pc = "replay"
    /\ r_i >= ReplayCount(num_steps, Len(r_trajectories))
    /\ r_pc' = "close"
    /\ UNCHANGED <<num_steps, r_trajectories, r_i, replayed, frames, resets,
                   env_open, interrupted, saved, r_err, nonRecorderVars>>

\* env.close()
CloseEnv ==
    /\ r_pc = "close"
    /\ env_open' = FALSE
    /\ r_pc' = "save"
    /\ UNCHANGED <<num_steps, r_trajectories, r_i, replayed, frames, resets,
                   interrupted, saved, r_err, nonRecorderVars>>

\* imageio.mimsave(output_video, np.array(frames), fps=fps)
SaveVideo ==
    /\ r_pc = "save"
    /\ saved' = [ written |-> TRUE, frames |-> frames, env_closed |-> ~env_open ]
    /\ r_pc' = "done"
    /\ UNCHANGED <<num_steps, r_trajectories, r_i, replayed, frames, resets,
                   env_open, interrupted, r_err, nonRecorderVars>>

NextRecorder ==
    \/ ReplayStep
    \/ ReplayEnd
    \/ CloseEnv
    \/ SaveVideo

SpecRecorder == InitRecorder /\ [][NextRecorder]_vars

Max(a, b) == IF a > b THEN a ELSE b

\* C11: the stride is max(1, floor(L / 2)); with L = 1 the stride is 1 and the
\* loop generates its windows instead of failing.
C11_DefaultStride ==
    (episode_length >= 1 /\ pc # "start")
    => /\ ~(pc = "error" /\ StepSize = 0)
       /\ \A i \in 1..(NumWindows - 1) :
            episode_starts[i + 1] - episode_starts[i]
              = Max(1, episode_length \div 2)

\* C12: with L <= 0 the call fails with an error raised to the caller (python's
\* ValueError) before any window is scored and before any ranking is printed
\* or any best / worst file is written.
C12_NonPositiveLengthFails ==
    (episode_length <= 0)
    => /\ episode_rewards = <<>>
       /\ episode_starts = <<>>
       /\ printed = <<>>
       /\ ~best_file.written
       /\ ~worst_file.written
       /\ pc \in {"start", "loop", "error"}
       /\ (pc = "loop" => pending = <<>>)
       /\ (pc = "error" => err = "ValueError")

C12_Witness ==
    /\ episode_length < 0
    /\ n_timesteps >= 3
    /\ pc = "error"
    /\ err = "ValueError"

\* C13: with a negative top_n the call fails: no ranking is produced and no
\* best / worst file is written.
C13_NegativeTopNFails ==
    (top_n < 0)
    => /\ pc \notin {"export_best", "export_worst", "done"}
       /\ printed = <<>>
       /\ ~best_file.written
       /\ ~worst_file.written

C15_InputNotMutated ==
    [][rewards' = rewards /\ (run' = run => heap'[LoadedRef] = heap[LoadedRef])]_vars

C15_Witness ==
    /\ pc = "done"
    /\ script = "json"
    /\ "note" \in DOMAIN best_file.metadata
    /\ "note" \in DOMAIN worst_file.metadata
    /\ "note" \notin DOMAIN heap[LoadedRef]
    /\ heap[LoadedRef] = LoadedMetadata

IsPermutationOfWindows(indices) ==
    /\ Len(indices) = NumWindows
    /\ { indices[i] : i \in 1..Len(indices) } = 0..(NumWindows - 1)

\* C16: when top_n >= N, every generated window is in the top list and in the
\* bottom list, once in each.
C16_NoDeduplication ==
    (Ranked /\ top_n >= NumWindows)
    => /\ IsPermutationOfWindows(best_indices)
       /\ IsPermutationOfWindows(worst_indices)

C16_Witness ==
    /\ Ranked
    /\ NumWindows = 2
    /\ top_n = 2
    /\ pc = "done"

\* C17: every written JSON trajectory file declares a metadata n_timesteps
\* equal to the length of its trajectories list.
C17_CountMatchesMetadata ==
    /\ best_file.written => TrajectoryCountMatches(best_file)
    /\ worst_file.written => TrajectoryCountMatches(worst_file)


\* every timestep has the declared observation and action shapes
AllShapesAsDeclared ==
    \A t \in 1..Len(v_trajectories) :
        /\ v_trajectories[t].obs = DeclaredObsShape
        /\ v_trajectories[t].act = DeclaredActShape

\* C18: verify_trajectory prints 'All shapes consistent' and counts the shape
\* check as passed only if every timestep has the declared shapes.
C18_ShapeCheckCoversAllSteps ==
    /\ (\E k \in 1..Len(v_printed) : v_printed[k] = <<"All shapes consistent">>)
         => AllShapesAsDeclared
    /\ "shapes" \in checks_passed => AllShapesAsDeclared


\* the converter has returned or raised
ConverterEnded == c_pc \in {"done", "error"}

\* the subdirectories of the vault that contain metadata.json
VaultQualities ==
    { listing[k].name : k \in { j \in 1..Len(listing) : listing[j].is_quality } }

\* the first of them in directory order
FirstVaultQuality ==
    listing[CHOOSE k \in 1..Len(listing) :
                /\ listing[k].is_quality
                /\ \A j \in 1..(k - 1) : ~listing[j].is_quality].name

\* vault_to_json or vault_to_npz has returned from a vault with qualities
SelectingConverterDone ==
    /\ converter \in {JsonConverter, NpzConverter}
    /\ c_pc = "done"
    /\ vault_exists
    /\ VaultQualities # {}

C20_NoOutputForUnavailableQuality ==
    (ConverterEnded /\ vault_exists /\ ~all_qualities /\ Truthy(quality)
        /\ quality \notin VaultQualities)
    => outputs = {}


\* ---- the action exporters ----

\* timestep t (counted from 1) is terminal: some agent's flag is set
TerminalStep(t) ==
    has_terminals /\ \E a \in 1..Len(terminals[t]) : terminals[t][a]

\* the number of terminal timesteps strictly before timestep t
TerminalsBefore(t) == Cardinality({ u \in 1..(t - 1) : TerminalStep(u) })

\* the timesteps of the episode that timestep t lies in
EpisodeSteps(t) ==
    { u \in 1..Len(actions) : TerminalsBefore(u) = TerminalsBefore(t) }

\* the concatenation of the action lists of JSON episodes
RECURSIVE ConcatActions(_)
ConcatActions(eps) ==
    IF eps = <<>> THEN <<>> ELSE Head(eps).actions \o ConcatActions(Tail(eps))

\* the number of timesteps in the JSON episodes before the k-th
RECURSIVE LengthBefore(_, _)
LengthBefore(eps, k) ==
    IF k <= 1 THEN 0 ELSE LengthBefore(eps, k - 1) + eps[k - 1].length

\* C21: the JSON export partitions the timeline: the episodes' action lists
\* concatenate to the action sequence, their lengths sum to total_timesteps,
\* episode_num counts 0, 1, ... in order, and a terminal timestep occurs in
\* an episode only as its last step.
C21_EpisodesPartitionTimeline ==
    json_file.written
    => LET eps == json_file.episodes
       IN  /\ ConcatActions(eps) = actions
           /\ json_file.total_timesteps = Len(actions)
           /\ LengthBefore(eps, Len(eps) + 1) = json_file.total_timesteps
           /\ json_file.num_episodes = Len(eps)
           /\ \A k \in 1..Len(eps) :
                /\ eps[k].episode_num = k - 1
                /\ eps[k].length = Len(eps[k].actions)
                /\ \A i \in 1..eps[k].length :
                     TerminalStep(LengthBefore(eps, k) + i) => i = eps[k].length

\* a timeline was split into a first episode of two steps and a second one
\* that ends on the terminal last timestep
C21_Witness ==
    /\ json_file.written
    /\ Len(json_file.episodes) = 2
    /\ json_file.episodes[1].length = 2
    /\ TerminalStep(Len(actions))

\* C22: a JSON episode is marked incomplete exactly when it is the last one
\* and the final timestep is not terminal; no episode is empty, also when
\* the final timestep is terminal or there are no timesteps.
C22_IncompleteOnlyOpenLastEpisode ==
    json_file.written
    => LET eps == json_file.episodes
       IN  /\ \A k \in 1..Len(eps) :
                /\ eps[k].incomplete <=> (k = Len(eps) /\ ~TerminalStep(Len(actions)))
                /\ eps[k].length > 0
                /\ eps[k].actions # <<>>
           /\ Len(actions) = 0 => eps = <<>>

\* an export with a complete episode followed by an incomplete one
C22_Witness ==
    /\ json_file.written
    /\ Len(json_file.episodes) = 2
    /\ ~json_file.episodes[1].incomplete
    /\ json_file.episodes[2].incomplete

\* the JSON episode that holds timestep t
JsonEpisodeOf(t) ==
    LET eps == json_file.episodes
    IN  eps[CHOOSE k \in 1..Len(eps) :
                LengthBefore(eps, k) < t /\ t <= LengthBefore(eps, k) + eps[k].length]

\* timestep t is the last step of a complete JSON episode
LastOfCompleteEpisode(t) ==
    LET eps == json_file.episodes
    IN  \E k \in 1..Len(eps) :
            ~eps[k].incomplete /\ t = LengthBefore(eps, k) + eps[k].length

\* both files of one run are complete
CsvAndJsonWritten ==
    /\ csv_file.opened
    /\ csv_file.closed
    /\ json_file.written

\* C23: CSV row t carries the episode_num of the JSON episode holding t,
\* which is the number of terminal timesteps before t, and episode_end is
\* true exactly on the last step of each complete JSON episode.
C23_CsvAgreesWithJson ==
    CsvAndJsonWritten
    => /\ Len(csv_file.rows) = Len(actions)
       /\ \A t \in 1..Len(actions) :
            LET row == csv_file.rows[t]
            IN  /\ row.timestep = t - 1
                /\ row.episode = JsonEpisodeOf(t).episode_num
                /\ row.episode = TerminalsBefore(t)
                /\ (row.has_episode_end /\ row.episode_end) <=> LastOfCompleteEpisode(t)

\* both files written for a timeline whose second episode also ended
C23_Witness ==
    /\ CsvAndJsonWritten
    /\ \E t \in 1..Len(actions) :
         /\ csv_file.rows[t].episode = 1
         /\ csv_file.rows[t].episode_end

\* C24: without a 'terminals' entry every exporter of both scripts still
\* completes; JSON has one incomplete episode with all timesteps, CSV has
\* every row in episode 0 and no episode_end column.
C24_NoTerminalsStillCompletes ==
    (~has_terminals /\ Len(actions) >= 1)
    => /\ x_err = ""
       /\ json_file.written
            => /\ Len(json_file.episodes) = 1
               /\ json_file.episodes[1].actions = actions
               /\ json_file.episodes[1].incomplete
       /\ csv_file.opened
            => /\ ~csv_file.has_episode_end
               /\ \A k \in 1..Len(csv_file.rows) :
                    /\ csv_file.rows[k].episode = 0
                    /\ ~csv_file.rows[k].has_episode_end
               /\ csv_file.closed => Len(csv_file.rows) = Len(actions)

\* the blocks of the text file of a given kind
TxtBlocks(kind) ==
    { txt_file.blocks[k] : k \in { j \in 1..Len(txt_file.blocks) :
                                     txt_file.blocks[j].kind = kind } }

\* the sum of one agent's rewards over a set of timesteps
RECURSIVE RewardSum(_, _)
RewardSum(steps, agent) ==
    IF steps = {} THEN 0
    ELSE LET u == CHOOSE v \in steps : TRUE
         IN  x_rewards[u][agent] + RewardSum(steps \ {u}, agent)

\* the timesteps of episodes numbered max_episodes or higher
BeyondLimit == { t \in 1..Len(actions) : TerminalsBefore(t) >= max_episodes }

\* export_actions_to_txt of export_vault_actions.py is writing or has written
VaultTxt == x_script = VaultActionsScript /\ txt_file.opened

\* C25: export_actions_to_txt writes the first max_episodes episodes only:
\* no timestep of a later episode is written, the loop stops at the first
\* timestep of episode max_episodes, and each written episode's Episode
\* Length is its number of timesteps and its Episode Return the per-agent
\* sum of the rewards of exactly its timesteps.
C25_TxtFirstEpisodesOnly ==
    VaultTxt
    => /\ \A b \in TxtBlocks("timestep") : TerminalsBefore(b.t + 1) < max_episodes
       /\ \A b \in TxtBlocks("truncated") :
            /\ BeyondLimit # {}
            /\ \A t \in BeyondLimit : b.t + 1 <= t
            /\ x_t = b.t
       /\ \A b \in TxtBlocks("end") :
            /\ TerminalStep(b.t + 1)
            /\ b.value = Cardinality(EpisodeSteps(b.t + 1))
            /\ has_rewards
                 => b.ret = [ a \in 1..2 |-> RewardSum(EpisodeSteps(b.t + 1), a) ]
       /\ x_pc = "done"
            => /\ \A t \in 1..Len(actions) :
                    TerminalsBefore(t) < max_episodes
                    => \E b \in TxtBlocks("timestep") : b.t + 1 = t
               /\ BeyondLimit # {} => TxtBlocks("truncated") # {}
               /\ \A t \in 1..Len(actions) :
                    (TerminalStep(t) /\ TerminalsBefore(t) < max_episodes)
                    => \E b \in TxtBlocks("end") : b.t + 1 = t

\* a text export that closed an episode of two timesteps with its return
\* and then stopped at the episode limit
C25_Witness ==
    /\ VaultTxt
    /\ x_pc = "done"
    /\ has_rewards
    /\ TxtBlocks("truncated") # {}
    /\ \E b \in TxtBlocks("end") : b.value = 2 /\ b.ret = <<2, 2>>


\* ---- batch_record ----

\* C26: batch_record handles the matching JSON files in sorted order, never
\* calls the recorder for a file whose .mp4 exists, handles every file
\* whatever failed before it, and in a second call after a first call that
\* succeeded on every file it calls the recorder for none.
C26_BatchSkipsAndContinues ==
    /\ \A k \in 1..Len(b_log) :
         /\ b_log[k].file \in matching
         /\ \A j \in 1..(k - 1) : b_log[j].file < b_log[k].file
         /\ \A f \in matching : f < b_log[k].file => \E j \in 1..(k - 1) : b_log[j].file = f
         /\ b_log[k].called => ~b_log[k].had_video
    /\ b_pc = "done" => { b_log[k].file : k \in 1..Len(b_log) } = matching
    /\ (b_run = 2 /\ first_success) => \A k \in 1..Len(b_log) : ~b_log[k].called

\* a second call, after a first call that succeeded everywhere, has gone
\* through three files
C26_Witness ==
    /\ b_run = 2
    /\ first_success
    /\ b_pc = "done"
    /\ Len(b_log) = 3


\* ---- convert_vault_to_json.py ----

\* C27: when convert_vault_to_json has ended, whichever loading method
\* succeeded or failed, the working directory is the one at entry.
C27_WorkingDirectoryRestored ==
    d_pc = "done" => cwd = entry_cwd

\* method 3 failed after the process had moved into another directory, and
\* the function has returned
C27_Witness ==
    /\ d_pc = "done"
    /\ "method 3 failed in the directory" \in d_events
    /\ entry_cwd # vault_parent


\* ---- create_progression_videos ----

\* C28: for num_videos >= 1 and 1 <= episode_length <= n_timesteps the call
\* ends with exactly num_videos segments, each [start, start + episode_length)
\* inside [0, n_timesteps], with non-decreasing starts, the first at 0 (when
\* num_videos >= 2) and the last ending at n_timesteps.
C28_ProgressionSegments ==
    (p_pc # "idle" /\ num_videos >= 1 /\ 1 <= p_length /\ p_length <= p_timesteps)
    => /\ p_err = ""
       /\ p_pc = "done"
            => /\ Len(segments) = num_videos
               /\ \A k \in 1..Len(segments) :
                    /\ segments[k].end = segments[k].start + p_length
                    /\ segments[k].steps = p_length
                    /\ 0 <= segments[k].start
                    /\ segments[k].end <= p_timesteps
                    /\ k > 1 => segments[k - 1].start <= segments[k].start
               /\ num_videos >= 2 => segments[1].start = 0
               /\ segments[Len(segments)].end = p_timesteps


\* ---- record_trajectory ----

\* the number of steps a complete replay has
FullReplay ==
    IF num_steps < Len(r_trajectories) THEN num_steps ELSE Len(r_trajectories)

\* C29: record_trajectory replays the stored actions in order with one
\* frame per replayed step; a replay that is not interrupted saves
\* min(num_steps, len(trajectories)) frames, also when the environment
\* terminated or was truncated on the way (it is reset and the next stored
\* action follows); after a keyboard interrupt the environment is closed and
\* the frames captured so far are saved.
C29_ReplayFramesSaved ==
    /\ \A k \in 1..Len(replayed) : replayed[k] = r_trajectories[k]
    /\ \A k \in 1..Len(frames) : frames[k] = replayed[k]
    /\ ~interrupted => Len(replayed) = Len(frames)
    /\ Len(replayed) - Len(frames) \in {0, 1}
    /\ \A k \in 1..Len(resets) :
         (r_pc = "done" /\ ~interrupted /\ resets[k] + 1 < FullReplay)
         => Len(replayed) > resets[k] + 1
    /\ (r_pc = "done" /\ ~interrupted)
         => /\ saved.written
            /\ Len(saved.frames) = FullReplay
            /\ saved.frames = frames
    /\ (r_pc = "done" /\ interrupted)
         => /\ ~env_open
            /\ saved.written
            /\ saved.env_closed
            /\ saved.frames = frames

\* a replay was reset after its first step, went on, was then interrupted by
\* the keyboard, and its frames were saved
C29_Witness ==
    /\ r_pc = "done"
    /\ interrupted
    /\ resets = <<0>>
    /\ Len(saved.frames) = 2

====
